---- MODULE Spec2Model ----
(***************************************************************************)
(* Model of llumnix/global_scheduler/dispatch_scheduler.py: the            *)
(* DispatchScheduler (instance registry, dispatchable subset, per-instance *)
(* dispatch counters) and the five dispatch policies.                      *)
(*                                                                         *)
(* Python values are modelled as follows.                                  *)
(*   str                 a sequence of one-character strings, so that the  *)
(*                       substring test of add_instance and the            *)
(*                       lexicographic sort of RoundRobin are computed     *)
(*   set                 a set                                             *)
(*   dict                a sequence of entries in insertion order          *)
(*   a raised exception  the name of its class in last_call.err            *)
(***************************************************************************)
EXTENDS Integers, Sequences, FiniteSets, TLC

(***************************************************************************)
(* Bounds of the model.                                                    *)
(***************************************************************************)
\* Spec calls dispatch() at most MaxRequests times
MaxRequests == 2
\* SpecCounting calls dispatch() at most MaxCountingRequests times
MaxCountingRequests == 4
\* num_dispatch_instances is drawn from 0 .. MaxCapacity
MaxCapacity == 2

(***************************************************************************)
(* Instance ids: three ordinary ids and one only-decode id.                *)
(***************************************************************************)
InstanceIds ==
    { <<"a">>, <<"b">>, <<"c">>, <<"d", "e", "c", "o", "d", "e">> }

\* the ids of Spec, whose calls carry snapshots as well
FleetIds ==
    { <<"a">>, <<"b">>, <<"d", "e", "c", "o", "d", "e">> }

\* "no instance id": the value slot of a call that returned none
NoId == <<>>

\* ord(c) for the characters that occur in InstanceIds
ord(c) ==
    CASE c = "a" -> 97
      [] c = "b" -> 98
      [] c = "c" -> 99
      [] c = "d" -> 100
      [] c = "e" -> 101
      [] c = "o" -> 111

\* sub in s, for Python strings
IsSubstring(sub, s) ==
    \E i \in 0..(Len(s) - Len(sub)) : SubSeq(s, i + 1, i + Len(sub)) = sub

\* the test of add_instance: "decode" in instance_id
is_decode_only(instance_id) ==
    IsSubstring(<<"d", "e", "c", "o", "d", "e">>, instance_id)

\* s < t, for Python strings (by code point, a proper prefix is smaller)
RECURSIVE StrLess(_, _)
StrLess(s, t) ==
    IF t = <<>> THEN FALSE
    ELSE IF s = <<>> THEN TRUE
    ELSE IF ord(Head(s)) # ord(Head(t)) THEN ord(Head(s)) < ord(Head(t))
    ELSE StrLess(Tail(s), Tail(t))

\* sorted(S) for a collection of distinct strings
RECURSIVE sorted_ids(_)
sorted_ids(S) ==
    IF S = {} THEN <<>>
    ELSE LET least == CHOOSE x \in S : \A y \in S \ {x} : StrLess(x, y)
         IN  <<least>> \o sorted_ids(S \ {least})

(***************************************************************************)
(* dict operations; a dict is a sequence of [id, n] in insertion order.    *)
(***************************************************************************)
Keys(d) == { d[i].id : i \in DOMAIN d }

\* d[k]
DictGet(d, k) == d[CHOOSE i \in DOMAIN d : d[i].id = k].n

\* DictSet that writes v to every entry
DictSet_all(d, k, v) ==
    IF k \in Keys(d)
    THEN [i \in DOMAIN d |-> [id |-> d[i].id, n |-> v]]
    ELSE Append(d, [id |-> k, n |-> v])

\* d[k] = v: an existing key keeps its place, a new key goes last
DictSet(d, k, v) ==
    IF k \in Keys(d)
    THEN [i \in DOMAIN d |-> IF d[i].id = k THEN [id |-> k, n |-> v] ELSE d[i]]
    ELSE Append(d, [id |-> k, n |-> v])

\* DictDel with the entry left in place
DictDel_keep(d, k) == d

\* del d[k]
DictDel(d, k) == SelectSeq(d, LAMBDA e : e.id # k)

VARIABLES
    dispatch_policy,                  \* the policy's registry name
    num_dispatch_instances,           \* capacity of the dispatchable subset
    num_instances,
    instance_id_set,
    available_dispatch_instance_set,
    instance_info,                    \* dict in insertion order: a sequence of InstanceInfo
    num_requests,
    instance_num_requests,            \* dict in insertion order: a sequence of [id, n]
    prev_instance_idx,                \* RoundRobin's cursor
    last_call,                        \* the last call: [op, arg, err, value]
    membership_call_after_dispatch    \* history: add/remove was called after a dispatch

vars == << dispatch_policy, num_dispatch_instances, num_instances, instance_id_set,
           available_dispatch_instance_set, instance_info,
           num_requests, instance_num_requests, prev_instance_idx, last_call,
           membership_call_after_dispatch >>

config == << dispatch_policy, num_dispatch_instances >>

\* DispatchPolicyFactory._POLICY_REGISTRY
POLICY_REGISTRY == { "flood", "balanced", "load", "queue", "rr" }

\* The values of num_dispatch_instances: 0 is "no limit".  A negative value
\* passes the two tests that read it (<= 0 in add_instance, num_instances >= it
\* in remove_instance) exactly as 0 does.
Capacities == 0..MaxCapacity

\* InstanceInfo, as far as the scheduler reads it.  The records of the model
\* are those of FleetIds with a load of 0 or 1 and the opposite queue size,
\* so that the two sort keys order any two of them differently.
InstanceInfo ==
    { [ instance_id |-> id,
        instance_load_dispatch_scale |-> load,
        num_waiting_requests |-> 1 - load ] : id \in FleetIds, load \in { 0, 1 } }

\* The dicts update_instance_infos is called with: no record, the record of
\* any one instance, or the records of two distinct instances that are not
\* only-decode, in either order.
Snapshots ==
    { <<>> } \cup { <<x>> : x \in InstanceInfo }
             \cup { p \in InstanceInfo \X InstanceInfo :
                      /\ p[1].instance_id # p[2].instance_id
                      /\ ~is_decode_only(p[1].instance_id)
                      /\ ~is_decode_only(p[2].instance_id) }

Call(op, arg, err, value) == [ op |-> op, arg |-> arg, err |-> err, value |-> value ]

\* DispatchScheduler.__init__; prev_instance_idx starts at RoundRobin's class
\* attribute, -1
Init ==
    /\ dispatch_policy \in POLICY_REGISTRY
    /\ num_dispatch_instances \in Capacities
    /\ num_instances = 0
    /\ instance_id_set = {}
    /\ available_dispatch_instance_set = {}
    /\ instance_info = <<>>
    /\ num_requests = 0
    /\ instance_num_requests = <<>>
    /\ prev_instance_idx = 0 - 1
    /\ last_call = Call("__init__", NoId, "", NoId)
    /\ membership_call_after_dispatch = FALSE

(***************************************************************************)
(* DispatchScheduler.update_instance_infos                                 *)
(***************************************************************************)
\* update_instance_infos for a dict.update(snapshot): the records of the
\* instances that the snapshot leaves out stay
update_instance_infos_merge(snapshot) ==
    /\ instance_info' =
           SelectSeq(instance_info,
                     LAMBDA info : \A i \in DOMAIN snapshot :
                                      snapshot[i].instance_id # info.instance_id)
               \o snapshot
    /\ last_call' = Call("update_instance_infos", snapshot, "", NoId)
    /\ UNCHANGED << config, num_instances, instance_id_set,
                    available_dispatch_instance_set,
                    num_requests, instance_num_requests, prev_instance_idx,
                    membership_call_after_dispatch >>

update_instance_infos(snapshot) ==
    /\ instance_info' = snapshot
    /\ last_call' = Call("update_instance_infos", snapshot, "", NoId)
    /\ UNCHANGED << config, num_instances, instance_id_set,
                    available_dispatch_instance_set,
                    num_requests, instance_num_requests, prev_instance_idx,
                    membership_call_after_dispatch >>

(***************************************************************************)
(* DispatchScheduler.add_instance                                          *)
(***************************************************************************)
\* has_free_slot with <= for <
has_free_slot_off_by_one ==
    \/ num_dispatch_instances <= 0
    \/ /\ num_dispatch_instances > 0
       /\ Cardinality(available_dispatch_instance_set) <= num_dispatch_instances

\* the capacity test of add_instance
has_free_slot ==
    \/ num_dispatch_instances <= 0
    \/ /\ num_dispatch_instances > 0
       /\ Cardinality(available_dispatch_instance_set) < num_dispatch_instances

add_instance(instance_id) ==
    /\ instance_id_set' = instance_id_set \cup {instance_id}
    /\ num_instances' = Cardinality(instance_id_set')
    /\ IF ~is_decode_only(instance_id) /\ has_free_slot
       THEN /\ available_dispatch_instance_set' =
                   available_dispatch_instance_set \cup {instance_id}
            /\ instance_num_requests' = DictSet(instance_num_requests, instance_id, 0)
       ELSE UNCHANGED << available_dispatch_instance_set, instance_num_requests >>
    /\ last_call' = Call("add_instance", instance_id, "", NoId)
    /\ membership_call_after_dispatch' =
           (membership_call_after_dispatch \/ num_requests > 0)
    /\ UNCHANGED << config, instance_info, num_requests,
                    prev_instance_idx >>

(***************************************************************************)
(* DispatchScheduler.remove_instance                                       *)
(***************************************************************************)
\* remove_raises for a set.discard(instance_id), which never raises
remove_raises_never(instance_id) == FALSE

\* set.remove(instance_id) raises KeyError
remove_raises(instance_id) == instance_id \notin instance_id_set

\* should_backfill with > for >=
should_backfill_strict(n) == n > num_dispatch_instances

\* the test that guards the backfill, on the number of instances left
should_backfill(n) == n >= num_dispatch_instances

\* backfill without available_dispatch_instance_set.remove(instance_id)
backfill_keep(instance_id, id_set) ==
    { [err |-> "", available |-> available_dispatch_instance_set] }

\* What the statements after the removal from instance_id_set do to
\* available_dispatch_instance_set: the possible [err, available] pairs.
\* next(iter(s)) yields an arbitrary element of s and raises StopIteration on
\* an empty s, after instance_id has left the set.
backfill(instance_id, id_set) ==
    LET shrunk == available_dispatch_instance_set \ {instance_id}
        free == id_set \ shrunk
    IN  IF instance_id \notin available_dispatch_instance_set
        THEN { [err |-> "", available |-> available_dispatch_instance_set] }
        ELSE IF ~should_backfill(Cardinality(id_set))
        THEN { [err |-> "", available |-> shrunk] }
        ELSE IF free = {}
        THEN { [err |-> "StopIteration", available |-> shrunk] }
        ELSE { [err |-> "", available |-> shrunk \cup {free_instance_id}] :
                 free_instance_id \in free }

remove_instance(instance_id) ==
    /\ membership_call_after_dispatch' =
           (membership_call_after_dispatch \/ num_requests > 0)
    /\ UNCHANGED << config, instance_info, num_requests,
                    prev_instance_idx >>
    /\ IF remove_raises(instance_id)
       THEN /\ last_call' = Call("remove_instance", instance_id, "KeyError", NoId)
            /\ UNCHANGED << num_instances, instance_id_set,
                            available_dispatch_instance_set, instance_num_requests >>
       ELSE /\ instance_id_set' = instance_id_set \ {instance_id}
            /\ num_instances' = Cardinality(instance_id_set')
            /\ instance_num_requests' = DictDel(instance_num_requests, instance_id)
            /\ \E out \in backfill(instance_id, instance_id_set') :
                  /\ available_dispatch_instance_set' = out.available
                  /\ last_call' = Call("remove_instance", instance_id, out.err, NoId)

(***************************************************************************)
(* DispatchScheduler._sort_instance_infos                                  *)
(***************************************************************************)
\* getattr(instance_info, key_attr)
sort_key(info) ==
    IF dispatch_policy = "queue"
    THEN info.num_waiting_requests
    ELSE info.instance_load_dispatch_scale

\* sorted(infos, key=sort_key, reverse=descending): a stable sort, so that
\* records with equal keys keep the order they have in infos
RECURSIVE stable_sorted(_, _)
stable_sorted(infos, descending) ==
    IF infos = <<>> THEN <<>>
    ELSE LET n == Len(infos)
             x == infos[n]
             front == stable_sorted(SubSeq(infos, 1, n - 1), descending)
             stays(e) == IF descending THEN sort_key(e) >= sort_key(x)
                                       ELSE sort_key(e) <= sort_key(x)
             p == Cardinality({ i \in DOMAIN front : stays(front[i]) })
         IN  SubSeq(front, 1, p) \o <<x>> \o SubSeq(front, p + 1, Len(front))

\* the records of instance_info whose instance is dispatchable
available_instance_infos ==
    SelectSeq(instance_info,
              LAMBDA info : info.instance_id \in available_dispatch_instance_set)

sort_instance_infos(descending) == stable_sorted(available_instance_infos, descending)

\* self.sorted_instance_infos as the policy reads it.  The attribute is read
\* nowhere but in Load.dispatch and Queue.dispatch, each time right after
\* dispatch() has assigned it by _sort_instance_infos(descending=False); it is
\* None (here the empty list, which no policy reads) under the other policies.
sorted_instance_infos ==
    IF dispatch_policy \in { "load", "queue" } THEN sort_instance_infos(FALSE) ELSE <<>>

(***************************************************************************)
(* The dispatch policies.  Each yields the set of its possible outcomes    *)
(* [err, id, idx]: the exception raised (or ""), the id returned and the   *)
(* value of prev_instance_idx afterwards.                                  *)
(***************************************************************************)
Returns(id, idx) == [ err |-> "", id |-> id, idx |-> idx ]

Raises(err, idx) == [ err |-> err, id |-> NoId, idx |-> idx ]

\* max(d, key=d.get) and min(d, key=d.get): the first key, in iteration
\* order, that holds the greatest (least) value
first_max_key(d) ==
    LET i == CHOOSE i \in DOMAIN d :
                 /\ \A j \in DOMAIN d : d[j].n <= d[i].n
                 /\ \A j \in 1..(i - 1) : d[j].n < d[i].n
    IN  d[i].id

first_min_key(d) ==
    LET i == CHOOSE i \in DOMAIN d :
                 /\ \A j \in DOMAIN d : d[j].n >= d[i].n
                 /\ \A j \in 1..(i - 1) : d[j].n > d[i].n
    IN  d[i].id

\* Flood_dispatch with min for max
Flood_dispatch_min(counts, sorted_infos) ==
    IF counts = <<>>
    THEN { Raises("ValueError", prev_instance_idx) }
    ELSE { Returns(first_min_key(counts), prev_instance_idx) }

\* max() of an empty dict raises ValueError
Flood_dispatch(counts, sorted_infos) ==
    IF counts = <<>>
    THEN { Raises("ValueError", prev_instance_idx) }
    ELSE { Returns(first_max_key(counts), prev_instance_idx) }

\* Balanced_dispatch with max for min
Balanced_dispatch_max(counts, sorted_infos) ==
    IF counts = <<>>
    THEN { Raises("ValueError", prev_instance_idx) }
    ELSE { Returns(first_max_key(counts), prev_instance_idx) }

\* Balanced_dispatch with min(..., default=None): None is returned for an empty dict
Balanced_dispatch_default(counts, sorted_infos) ==
    IF counts = <<>>
    THEN { Returns(NoId, prev_instance_idx) }
    ELSE { Returns(first_min_key(counts), prev_instance_idx) }

\* min() of an empty dict raises ValueError
Balanced_dispatch(counts, sorted_infos) ==
    IF counts = <<>>
    THEN { Raises("ValueError", prev_instance_idx) }
    ELSE { Returns(first_min_key(counts), prev_instance_idx) }

\* sorted_instance_infos[0] of an empty list raises IndexError
Load_dispatch(counts, sorted_infos) ==
    IF sorted_infos = <<>>
    THEN { Raises("IndexError", prev_instance_idx) }
    ELSE { Returns(sorted_infos[1].instance_id, prev_instance_idx) }

\* random.choice over the records that share the least queue size
Queue_dispatch(counts, sorted_infos) ==
    IF sorted_infos = <<>>
    THEN { Raises("IndexError", prev_instance_idx) }
    ELSE LET min_queue_size == sorted_infos[1].num_waiting_requests
             instance_id_list ==
                 SelectSeq(sorted_infos,
                           LAMBDA info : info.num_waiting_requests = min_queue_size)
         IN  { Returns(instance_id_list[i].instance_id, prev_instance_idx) :
                 i \in DOMAIN instance_id_list }

\* x % 0 raises ZeroDivisionError, before prev_instance_idx is assigned
RoundRobin_dispatch(counts, sorted_infos) ==
    LET all_instance_ids == sorted_ids(Keys(counts))
    IN  IF Len(all_instance_ids) = 0
        THEN { Raises("ZeroDivisionError", prev_instance_idx) }
        ELSE LET cur_instance_idx == (prev_instance_idx + 1) % Len(all_instance_ids)
             IN  { Returns(all_instance_ids[cur_instance_idx + 1], cur_instance_idx) }

policy_dispatch(counts, sorted_infos) ==
    CASE dispatch_policy = "flood"    -> Flood_dispatch(counts, sorted_infos)
      [] dispatch_policy = "balanced" -> Balanced_dispatch(counts, sorted_infos)
      [] dispatch_policy = "load"     -> Load_dispatch(counts, sorted_infos)
      [] dispatch_policy = "queue"    -> Queue_dispatch(counts, sorted_infos)
      [] dispatch_policy = "rr"       -> RoundRobin_dispatch(counts, sorted_infos)

(***************************************************************************)
(* DispatchScheduler.dispatch                                              *)
(***************************************************************************)
\* instance_num_requests[dispatch_instance_id] += 1 raises KeyError
increment_raises(dispatch_instance_id) ==
    dispatch_instance_id \notin Keys(instance_num_requests)

\* The statistics are logged when num_requests % 100 = 0: logging changes no
\* state.
dispatch ==
    /\ num_requests' = num_requests + 1
    /\ \E out \in policy_dispatch(instance_num_requests, sorted_instance_infos) :
          /\ prev_instance_idx' = out.idx
          /\ IF out.err # ""
             THEN /\ last_call' = Call("dispatch", NoId, out.err, NoId)
                  /\ UNCHANGED instance_num_requests
             ELSE IF increment_raises(out.id)
             THEN /\ last_call' = Call("dispatch", NoId, "KeyError", NoId)
                  /\ UNCHANGED instance_num_requests
             ELSE /\ last_call' = Call("dispatch", NoId, "", out.id)
                  /\ instance_num_requests' =
                         DictSet(instance_num_requests, out.id,
                                 DictGet(instance_num_requests, out.id) + 1)
    /\ UNCHANGED << config, num_instances, instance_id_set,
                    available_dispatch_instance_set, instance_info,
                    membership_call_after_dispatch >>

(***************************************************************************)
(* Spec: every policy, every call, over FleetIds.                          *)
(***************************************************************************)
Next ==
    \/ \E instance_id \in FleetIds : add_instance(instance_id)
    \/ \E instance_id \in FleetIds : remove_instance(instance_id)
    \/ \E snapshot \in Snapshots : update_instance_infos(snapshot)
    \/ num_requests < MaxRequests /\ dispatch

Spec == Init /\ [][Next]_vars

(***************************************************************************)
(* SpecMembership: add_instance and remove_instance alone, over            *)
(* InstanceIds.                                                            *)
(***************************************************************************)
NextMembership ==
    \/ \E instance_id \in InstanceIds : add_instance(instance_id)
    \/ \E instance_id \in InstanceIds : remove_instance(instance_id)

SpecMembership == Init /\ [][NextMembership]_vars

(***************************************************************************)
(* SpecCounting: the policies that read the counters alone (Flood,         *)
(* Balanced, RoundRobin), over InstanceIds and with more dispatches.       *)
(***************************************************************************)
InitCounting == Init /\ dispatch_policy \in { "flood", "balanced", "rr" }

NextCounting ==
    \/ \E instance_id \in InstanceIds : add_instance(instance_id)
    \/ \E instance_id \in InstanceIds : remove_instance(instance_id)
    \/ num_requests < MaxCountingRequests /\ dispatch

SpecCounting == InitCounting /\ [][NextCounting]_vars

(***************************************************************************)
(* Properties.                                                             *)
(***************************************************************************)
\* the registered instances that are not only-decode
plain_instances == { id \in instance_id_set : ~is_decode_only(id) }

Min(m, n) == IF m <= n THEN m ELSE n

\* the step is a call remove_instance(id)
IsRemoveStep(id) ==
    last_call'.op = "remove_instance" /\ last_call'.arg = id

\* the step is a call dispatch()
IsDispatchStep == last_call'.op = "dispatch" /\ num_requests' = num_requests + 1

\* C1. With a capacity C > 0, at most C instances are dispatchable after every
\* add_instance and remove_instance call.
C1_CapacityInvariant ==
    num_dispatch_instances > 0 =>
        Cardinality(available_dispatch_instance_set) <= num_dispatch_instances

\* an add_instance of an ordinary instance that the full capacity kept out
C1_Witness ==
    /\ num_dispatch_instances > 0
    /\ Cardinality(available_dispatch_instance_set) = num_dispatch_instances
    /\ last_call.op = "add_instance"
    /\ ~is_decode_only(last_call.arg)
    /\ last_call.arg \notin available_dispatch_instance_set

\* C2. No only-decode instance is ever dispatchable or holds a counter.
C2_DecodeExclusion ==
    \A id \in InstanceIds :
        is_decode_only(id) =>
            /\ id \notin available_dispatch_instance_set
            /\ id \notin Keys(instance_num_requests)

\* C3. With a capacity C > 0, after every add_instance and remove_instance call
\* the number of dispatchable instances is min(C, number of registered
\* instances that are not only-decode).
C3_FilledToCapacity ==
    num_dispatch_instances > 0 =>
        Cardinality(available_dispatch_instance_set) =
            Min(num_dispatch_instances, Cardinality(plain_instances))

\* C4 as claimed. With a capacity C > 0, remove_instance(id) of a dispatchable
\* id turns the dispatchable set into the old one minus id plus one instance
\* that was registered and not dispatchable, whenever any registered instance
\* is left outside the old set minus id; remove_instance(id) of another
\* registered id leaves the dispatchable set alone.
C4_BackfillWheneverPossible ==
    [][ \A id \in instance_id_set :
          (IsRemoveStep(id) /\ num_dispatch_instances > 0) =>
             IF id \in available_dispatch_instance_set
             THEN (instance_id_set' \ (available_dispatch_instance_set \ {id}) # {}) =>
                     \E free \in instance_id_set \ available_dispatch_instance_set :
                        available_dispatch_instance_set' =
                            (available_dispatch_instance_set \ {id}) \cup {free}
             ELSE available_dispatch_instance_set' = available_dispatch_instance_set
      ]_vars

\* C4 as amended. With a capacity C > 0, remove_instance(id) of a dispatchable
\* id turns the dispatchable set into the old one minus id plus one instance
\* that was registered and not dispatchable when at least C instances stay
\* registered, and into the old one minus id when fewer stay;
\* remove_instance(id) of another registered id leaves the set alone.
C4_RemovalBackfill ==
    [][ \A id \in instance_id_set :
          (IsRemoveStep(id) /\ num_dispatch_instances > 0) =>
             IF id \in available_dispatch_instance_set
             THEN IF Cardinality(instance_id_set') >= num_dispatch_instances
                  THEN \E free \in (instance_id_set \ {id}) \ available_dispatch_instance_set :
                          available_dispatch_instance_set' =
                              (available_dispatch_instance_set \ {id}) \cup {free}
                  ELSE available_dispatch_instance_set' =
                           available_dispatch_instance_set \ {id}
             ELSE available_dispatch_instance_set' = available_dispatch_instance_set
      ]_vars

\* capacity 2, a removed, b and c dispatchable, c without a counter: c took
\* the slot that a left
C4_Witness ==
    /\ num_dispatch_instances = 2
    /\ last_call = Call("remove_instance", <<"a">>, "", NoId)
    /\ instance_id_set = { <<"b">>, <<"c">> }
    /\ available_dispatch_instance_set = { <<"b">>, <<"c">> }
    /\ Keys(instance_num_requests) = { <<"b">> }

\* C5. remove_instance(id) of a registered id raises nothing, whatever the
\* capacity.
C5_RemoveRegisteredSucceeds ==
    [][ \A id \in instance_id_set : IsRemoveStep(id) => last_call'.err = "" ]_vars

\* C6. remove_instance(id) of an id that is not registered raises an error and
\* leaves the registry, the dispatchable set, the counters, the snapshot, the
\* number of requests and the round-robin cursor as they were.
C6_UnknownRemoval ==
    [][ \A id \in InstanceIds \ instance_id_set :
          IsRemoveStep(id) =>
             /\ last_call'.err # ""
             /\ UNCHANGED << instance_id_set, num_instances,
                             available_dispatch_instance_set, instance_num_requests,
                             instance_info, num_requests, prev_instance_idx >>
      ]_vars

\* a failed remove_instance, after a dispatch, of an id that is not registered
\* while others are
C6_Witness ==
    /\ last_call.op = "remove_instance"
    /\ last_call.err = "KeyError"
    /\ last_call.arg \notin instance_id_set
    /\ available_dispatch_instance_set # {}
    /\ num_requests > 0

empty_dispatch_error ==
    CASE dispatch_policy \in { "flood", "balanced" } -> "ValueError"
      [] dispatch_policy \in { "load", "queue" }     -> "IndexError"
      [] dispatch_policy = "rr"                      -> "ZeroDivisionError"

C8_DispatchTarget ==
    (last_call.op = "dispatch" /\ last_call.err = "") =>
        /\ last_call.value \in available_dispatch_instance_set
        /\ last_call.value \in instance_id_set
        /\ ~is_decode_only(last_call.value)

\* a dispatch() under Load that returned an id while an only-decode instance
\* was dispatchable and the snapshot held a record of an unregistered instance
C8_Witness ==
    /\ last_call.op = "dispatch"
    /\ last_call.err = ""
    /\ dispatch_policy = "load"
    /\ \E id \in available_dispatch_instance_set : is_decode_only(id)
    /\ \E i \in DOMAIN instance_info : instance_info[i].instance_id \notin instance_id_set

\* C9. Under Balanced, as long as no add_instance or remove_instance follows
\* the first dispatch, the counters differ by at most 1.
C9_BalancedFairness ==
    (dispatch_policy = "balanced" /\ ~membership_call_after_dispatch) =>
        \A i, j \in DOMAIN instance_num_requests :
            instance_num_requests[i].n - instance_num_requests[j].n <= 1

\* three dispatches over two instances, or more
C9_Witness ==
    /\ dispatch_policy = "balanced"
    /\ ~membership_call_after_dispatch
    /\ last_call.op = "dispatch"
    /\ num_requests >= 3
    /\ Len(instance_num_requests) >= 2
    /\ \E i, j \in DOMAIN instance_num_requests :
          instance_num_requests[i].n # instance_num_requests[j].n

\* C10. Under RoundRobin, as long as no add_instance or remove_instance follows
\* the first dispatch, the k-th dispatch returns the dispatchable id at place
\* (k - 1) mod N of the N dispatchable ids in lexicographic order.
C10_RoundRobinOrder ==
    ( /\ dispatch_policy = "rr"
      /\ ~membership_call_after_dispatch
      /\ last_call.op = "dispatch"
      /\ available_dispatch_instance_set # {} ) =>
        /\ last_call.err = ""
        /\ last_call.value =
              sorted_ids(available_dispatch_instance_set)
                  [((num_requests - 1) % Cardinality(available_dispatch_instance_set)) + 1]

\* the positions of instance_info that hold the record of a dispatchable instance
eligible_records ==
    { i \in DOMAIN instance_info :
        instance_info[i].instance_id \in available_dispatch_instance_set }

\* instance_info holds a record of every dispatchable instance
all_eligible_recorded ==
    \A id \in available_dispatch_instance_set :
        \E i \in DOMAIN instance_info : instance_info[i].instance_id = id

\* C11. Under Load, when the snapshot holds a record of every dispatchable
\* instance and their loads differ pairwise, dispatch() returns the
\* dispatchable instance of least load.
C11_LoadSelectsMinimum ==
    ( /\ dispatch_policy = "load"
      /\ last_call.op = "dispatch"
      /\ available_dispatch_instance_set # {}
      /\ all_eligible_recorded
      /\ \A i, j \in eligible_records :
            i # j => instance_info[i].instance_load_dispatch_scale #
                     instance_info[j].instance_load_dispatch_scale ) =>
        /\ last_call.err = ""
        /\ \E i \in eligible_records :
              /\ instance_info[i].instance_id = last_call.value
              /\ \A j \in eligible_records :
                    instance_info[i].instance_load_dispatch_scale <=
                        instance_info[j].instance_load_dispatch_scale

\* the ids a call dispatch() can return in the current state
dispatch_results ==
    { out.id : out \in { o \in policy_dispatch(instance_num_requests,
                                                 sorted_instance_infos) :
                            o.err = "" /\ ~increment_raises(o.id) } }

\* the dispatchable instances whose record holds the least queue size
min_queue_size_ids ==
    { instance_info[i].instance_id : i \in
        { i \in eligible_records :
            \A j \in eligible_records :
                instance_info[i].num_waiting_requests <=
                    instance_info[j].num_waiting_requests } }

\* C12. Under Queue, the id dispatch() returned is a dispatchable instance of
\* least queue size in the snapshot, and dispatch() can return every
\* dispatchable instance of least queue size in the snapshot.
C12_QueueSelection ==
    dispatch_policy = "queue" =>
        /\ (last_call.op = "dispatch" /\ last_call.err = "") =>
               last_call.value \in min_queue_size_ids
        /\ min_queue_size_ids \subseteq dispatch_results

\* C13. After every call, the instances that have a counter are exactly the
\* dispatchable ones.
C13_CounterLifecycle ==
    Keys(instance_num_requests) = available_dispatch_instance_set

\* C14. No call lowers the counter of an instance that is registered before
\* and after it.
C14_CounterMonotone ==
    [][ \A id \in instance_id_set \cap instance_id_set' :
          (id \in Keys(instance_num_requests) /\ id \in Keys(instance_num_requests')) =>
              DictGet(instance_num_requests', id) >= DictGet(instance_num_requests, id)
      ]_vars

\* C15. After every call, failed ones included, every dispatchable instance is
\* registered.
C15_EligibleSubset ==
    available_dispatch_instance_set \subseteq instance_id_set

\* a remove_instance of a dispatchable instance that backfilled its place and
\* left an instance registered that is not dispatchable, after a dispatch
C15_Witness ==
    /\ last_call.op = "remove_instance"
    /\ last_call.err = ""
    /\ last_call.arg \notin instance_id_set
    /\ num_requests > 0
    /\ \E id \in available_dispatch_instance_set :
          id \notin Keys(instance_num_requests)
    /\ instance_id_set \ available_dispatch_instance_set # {}

\* C16. dispatch() returns an id whenever an instance is dispatchable and, under
\* Load and Queue, the snapshot holds a record of every dispatchable instance.
C16_DispatchAvailability ==
    ( /\ last_call.op = "dispatch"
      /\ available_dispatch_instance_set # {}
      /\ dispatch_policy \in { "load", "queue" } => all_eligible_recorded ) =>
        /\ last_call.err = ""
        /\ last_call.value \in available_dispatch_instance_set

\* sum(d.values())
RECURSIVE sum_values(_)
sum_values(d) ==
    IF d = <<>> THEN 0 ELSE Head(d).n + sum_values(Tail(d))

\* C17. A dispatch() that returns an id adds 1 to num_requests and to the
\* counter of that id; it changes no other counter, nor the registered set,
\* the dispatchable set or the snapshot, so the counters' sum grows by 1.
C17_DispatchEffect ==
    [][ (last_call'.op = "dispatch" /\ last_call'.err = "") =>
           /\ num_requests' = num_requests + 1
           /\ \E i \in DOMAIN instance_num_requests :
                 /\ instance_num_requests[i].id = last_call'.value
                 /\ instance_num_requests' =
                        [ instance_num_requests EXCEPT ![i].n = @ + 1 ]
           /\ sum_values(instance_num_requests') =
                  sum_values(instance_num_requests) + 1
           /\ UNCHANGED << instance_id_set, num_instances,
                           available_dispatch_instance_set, instance_info >>
      ]_vars

\* a second dispatch() to the same instance, with another counter and a
\* snapshot in place
C17_Witness ==
    /\ last_call.op = "dispatch"
    /\ last_call.err = ""
    /\ instance_info # <<>>
    /\ \E i, j \in DOMAIN instance_num_requests :
          /\ instance_num_requests[i].id = last_call.value
          /\ instance_num_requests[i].n = 2
          /\ j # i

\* C18. Under Flood, a dispatch() that directly follows a dispatch(), both
\* returning an id, returns the same id: a run of dispatches with no
\* add_instance or remove_instance in between goes to one instance.
C18_FloodConcentration ==
    [][ ( /\ dispatch_policy = "flood"
          /\ last_call.op = "dispatch" /\ last_call.err = ""
          /\ last_call'.op = "dispatch" /\ last_call'.err = "" ) =>
            last_call'.value = last_call.value
      ]_vars

\* a third dispatch() in a row to one instance, with another instance that
\* has a counter
C18_Witness ==
    /\ dispatch_policy = "flood"
    /\ last_call.op = "dispatch"
    /\ last_call.err = ""
    /\ \E i, j \in DOMAIN instance_num_requests :
          /\ instance_num_requests[i].id = last_call.value
          /\ instance_num_requests[i].n >= 3
          /\ j # i

\* C19. update_instance_infos(snapshot) makes instance_info the given snapshot
\* and changes nothing else; a second call with the same snapshot changes
\* nothing at all.
C19_UpdateReplaces ==
    /\ [][ last_call'.op = "update_instance_infos" =>
              /\ instance_info' = last_call'.arg
              /\ UNCHANGED << instance_id_set, num_instances,
                              available_dispatch_instance_set,
                              instance_num_requests, num_requests,
                              prev_instance_idx >>
         ]_vars
    /\ [](last_call.op = "update_instance_infos" =>
             ~ENABLED (update_instance_infos(last_call.arg) /\ vars' # vars))

\* under Load, after a dispatch() that read a record of a registered instance,
\* an update_instance_infos with the one record of an unregistered instance
C19_Witness ==
    /\ last_call.op = "update_instance_infos"
    /\ dispatch_policy = "load"
    /\ \E i \in DOMAIN instance_num_requests : instance_num_requests[i].n > 0
    /\ Len(instance_info) = 1
    /\ instance_info[1].instance_id \notin instance_id_set

====
